---- MODULE Spec2Model ----
(***************************************************************************)
(* Dead-link-aware pagination of ranked search results, after              *)
(* cccatalog/api/controllers/search_controller.py.                         *)
(*                                                                         *)
(* A query has a ranked list of hits in the index; every hit has a URL     *)
(* whose probe answers 200, 403 or times out.  A per-query liveness mask   *)
(* (a list of 0/1, one entry per rank, kept in the cache) records what the *)
(* probes found.  search() and related_images() compute a slice            *)
(* [start, end) from the mask, execute the query over the slice, and       *)
(* _post_process_results filters the dead hits and widens the slice while  *)
(* the page is underfull.                                                  *)
(*                                                                         *)
(* Ranks are 0-based as in the code; the sequences of TLA+ are 1-based, so *)
(* the entry of rank r is at position r + 1.  A hit is named by its rank.  *)
(*                                                                         *)
(* The module also holds smaller components, each with its own             *)
(* specification: the moderation locks of api/utils/moderation_lock.py     *)
(* (SpecLocks, SpecRenew) and the admin views that consult them            *)
(* (api/admin/media_report.py, SpecAdmin), the shared aiohttp sessions of  *)
(* api/utils/aiohttp.py (SpecSessions, SpecShutdown), the reindexing of    *)
(* es_syncer/sync.py (SpecSync), the point_alias task group of             *)
(* catalog/dags/common/elasticsearch.py (SpecAlias) and get_providers of   *)
(* the search controller (SpecCounts).  In the specification of one        *)
(* component the others stay at rest.                                      *)
(***************************************************************************)
EXTENDS Integers, Sequences, FiniteSets, TLC

VARIABLES
    index,      \* the probe outcome of the hit at each rank of the query's ranking
    cacheUp,    \* whether the cache backing store is reachable
    mask,       \* query fingerprint -> the liveness mask stored in the cache
    req,        \* process -> the request it is handling
    session,    \* the client that walks pages 1, 2, ... : what it was served
    provider_docs,   \* the documents of provider "spammy_source" that match
                     \* the query, by rank: the probe outcome of each
    registry,        \* the providers the registry flags filter_content = True
    filter_cache,    \* the cached 'filtered_providers' list ({} when none)
    redisUp,    \* whether the Redis store of the moderation locks is reachable
    locks,      \* <<username, object>> -> the score (expiration) of the lock
                \* in the sorted set of the username, NoLock when absent
    now,        \* int(time.time())
    lm,         \* process -> the LockManager operation it is executing
    _SESSIONS,  \* event loop -> the session registered for it (0: none)
    _LOCKS,     \* event loop -> its lock: "none" (not registered), "free",
                \* or the task that holds it
    sessions,   \* the sessions created so far, in order: loop, closed
    aio,        \* task -> the get_aiohttp_session() call it is executing
    es_indices, \* the names of the indices of the Elasticsearch cluster
    es_aliases, \* the aliases of the cluster: pairs <<alias, index>>
    complete,   \* the indices that hold the last document of the database
    sync,       \* the reindex run of the syncer
    es_providers,    \* the index 'image' as the providers aggregation sees
                     \* it: whether it exists, the documents per provider
    providers_cache, \* the value cached under 'providers-image'
    providers_ret,   \* what the last get_providers('image') returned
    shutdown,   \* the run of _close_sessions: its position, the session it
                \* popped, the sessions popped so far, closed_sessions
    pa,         \* the run of the point_alias task group: its arguments, the
                \* task that runs next, the XCom of get_existing_index
    view,       \* the admin view being served: its request, whether the
                \* store failed, the locked media or moderators it found
    last_op     \* history: <<username, object>> -> the most recent of
                \* add_locks ("add", with the expiration it set) and
                \* remove_locks ("remove") that reached the store for the
                \* pair, "none" before the first

providerVars == <<provider_docs, registry, filter_cache>>

lockVars == <<redisUp, locks, now, lm, last_op>>

aioVars == <<_SESSIONS, _LOCKS, sessions, aio>>

syncVars == <<es_indices, es_aliases, complete, sync>>

countVars == <<es_providers, providers_cache, providers_ret>>

shutdownVars == <<shutdown>>

aliasVars == <<pa>>

adminVars == <<view>>

searchVars == <<index, cacheUp, mask, req, session, providerVars>>

\* the state of the other components, which no action of a component touches
nonSearchVars ==
    <<lockVars, aioVars, syncVars, countVars,
      shutdownVars, aliasVars, adminVars>>

nonLockVars ==
    <<searchVars, aioVars, syncVars, countVars,
      shutdownVars, aliasVars, adminVars>>

nonAioVars ==
    <<searchVars, lockVars, syncVars, countVars,
      shutdownVars, aliasVars, adminVars>>

nonSyncVars ==
    <<searchVars, lockVars, aioVars, countVars,
      shutdownVars, aliasVars, adminVars>>

nonCountVars ==
    <<searchVars, lockVars, aioVars, syncVars,
      shutdownVars, aliasVars, adminVars>>

\* the components other than the sessions and their shutdown
nonSessionVars ==
    <<searchVars, lockVars, syncVars, countVars, aliasVars, adminVars>>

vars == <<index, cacheUp, mask, req, session, providerVars, nonSearchVars>>

----------------------------------------------------------------------------
\* Program constants

ELASTICSEARCH_MAX_RESULT_WINDOW == 10000

\* CACHE_TIMEOUT (seconds) is the time to live of the cached provider lists;
\* the model lets a cached list expire at any moment.

\* DEAD_LINK_RATIO = 1 / 2, kept as a fraction
DEAD_LINK_RATIO_NUM == 1

DEAD_LINK_RATIO_DEN == 2

\* page_size of related_images
RELATED_PAGE_SIZE == 10

\* the time to live of a moderation lock, in seconds
TTL == 10

\* the 5000 of last_allowed_page
DEEP_PAGINATION_DEPTH == 5000

----------------------------------------------------------------------------
\* Bounds of the model

\* the longest of the exhaustively enumerated rankings
MaxHits == 3

\* the length of the one long ranking
BigHits == 8000

\* every DeadEvery-th hit of the long ranking is dead
DeadEvery == 3

\* the first DeadLead hits of the long ranking are dead
DeadLead == 4

\* the deepest page requested
MaxPage == 3

\* the clock of the moderation locks advances in steps of ClockStep seconds
\* up to MaxTime
ClockStep == 5

MaxTime == 15

\* the most sessions created
MaxSessions == 3

\* the most reindex runs of the syncer
MaxReindex == 4

\* the longest ranking of the concurrent specification
MaxConcHits == 2

\* the interpreter's limit on the depth of a recursion, above every depth the
\* result window allows to a slice that grows
MaxDepth == 25

\* the longest mask left in the cache from before a refresh of the index
MaxStaleMask == 2

----------------------------------------------------------------------------
\* Helpers

Min(a, b) == IF a < b THEN a ELSE b

Max(a, b) == IF a > b THEN a ELSE b

\* math.ceil(a / b) for integers a >= 0, b > 0
CeilDiv(a, b) == (a + b - 1) \div b

\* s[:n]
Take(s, n) == SubSeq(s, 1, Min(n, Len(s)))

IsPrefix(s, t) == Len(s) <= Len(t) /\ SubSeq(t, 1, Len(s)) = s

RECURSIVE Concat(_)
Concat(ss) == IF ss = <<>> THEN <<>> ELSE ss[1] \o Concat(Tail(ss))

Statuses == {"200", "403", "timeout"}

Fingerprints == {"search", "related"}

Procs == {"a", "b"}

HalfWindow == ELASTICSEARCH_MAX_RESULT_WINDOW \div 2

PageSizes == {1, 2, HalfWindow, HalfWindow + 1}

Pages == 1 .. MaxPage

SmallIndexes == UNION {[1 .. n -> Statuses] : n \in 0 .. MaxHits}

BigIndex ==
    [i \in 1 .. BigHits |->
        IF i <= DeadLead \/ i % DeadEvery = 0 THEN "403" ELSE "200"]

----------------------------------------------------------------------------
\* The liveness probe and the liveness cache

\* The probe of the hit at rank r: alive on 200; 403 and a timeout are dead.
IsLive(r) == index[r + 1] = "200"

LiveBit(r) == IF IsLive(r) THEN 1 ELSE 0

\* get_query_mask: the mask of the fingerprint, empty when there is none or
\* when the backing store is unreachable
get_query_mask(query_hash) == IF cacheUp THEN mask[query_hash] ELSE <<>>

\* a merge that rewrites the mask from start on
Merge_Rewrite(m, start, bits) == SubSeq(m, 1, Min(start, Len(m))) \o bits

\* The additive merge of the facts found for ranks start, start + 1, ... into a
\* mask: a rank the mask already records keeps its entry, the new ranks are
\* appended (a rank between the two, which no probe saw, is recorded dead).
Merge(m, start, bits) ==
    [i \in 1 .. Max(Len(m), start + Len(bits)) |->
        IF i <= Len(m) THEN m[i]
        ELSE IF i > start THEN bits[i - start]
        ELSE 0]

\* validate_images(query_hash, start, results, to_validate), its effect on the
\* results: the hits whose probe is dead are deleted in place, order kept
validate_images(results) == SelectSeq(results, IsLive)

\* validate_images, its effect on the cache: the probe outcomes of the hits
\* are merged into the mask of the fingerprint; nothing is stored when the
\* backing store is unreachable
save_query_mask(query_hash, start, hits) ==
    IF cacheUp
    THEN [mask EXCEPT ![query_hash] =
              Merge(@, start, [i \in 1 .. Len(hits) |-> LiveBit(hits[i])])]
    ELSE mask

----------------------------------------------------------------------------
\* _paginate_with_dead_link_mask

\* sum(query_mask)
MaskSum(query_mask) ==
    Cardinality({i \in 1 .. Len(query_mask) : query_mask[i] = 1})

\* The ranks the mask records live, in rank order.
LiveRanks(query_mask) ==
    SelectSeq([i \in 1 .. Len(query_mask) |-> i - 1],
              LAMBDA r : query_mask[r + 1] = 1)

\* list(accumulate(query_mask)).index(v) for v >= 1: the running sum first
\* equals v at the rank of the v-th live entry.  HasIndex is false where
\* index() raises ValueError.
HasIndex(query_mask, v) == v <= MaskSum(query_mask)

AccuIndex(query_mask, v) == LiveRanks(query_mask)[v]

\* ceil(page_size * page / (1 - DEAD_LINK_RATIO))
InflatedEnd(page_size, page) ==
    CeilDiv(page_size * page * DEAD_LINK_RATIO_DEN,
            DEAD_LINK_RATIO_DEN - DEAD_LINK_RATIO_NUM)

\* start of the slice when the mask records page_size * (page - 1) live ranks
MaskStart_OffByOne(query_mask, page_size, page) ==
    IF page > 1
    THEN AccuIndex(query_mask, page_size * (page - 1))
    ELSE 0

MaskStart(query_mask, page_size, page) ==
    IF page > 1
    THEN IF HasIndex(query_mask, page_size * (page - 1) + 1)
         THEN AccuIndex(query_mask, page_size * (page - 1) + 1)
         ELSE AccuIndex(query_mask, page_size * (page - 1)) + 1
    ELSE 0

\* end of the slice in the same branch
MaskEnd_NoPlusOne(query_mask, page_size, page) ==
    IF page_size * page > MaskSum(query_mask)
    THEN InflatedEnd(page_size, page)
    ELSE AccuIndex(query_mask, page_size * page)

MaskEnd(query_mask, page_size, page) ==
    IF page_size * page > MaskSum(query_mask)
    THEN InflatedEnd(page_size, page)
    ELSE AccuIndex(query_mask, page_size * page) + 1

_paginate_with_dead_link_mask(query_mask, page_size, page) ==
    IF query_mask = <<>>
    THEN [start |-> 0, end |-> InflatedEnd(page_size, page)]
    ELSE IF page_size * (page - 1) > MaskSum(query_mask)
    THEN [start |-> Len(query_mask), end |-> InflatedEnd(page_size, page)]
    ELSE [start |-> MaskStart(query_mask, page_size, page),
          end |-> MaskEnd(query_mask, page_size, page)]

----------------------------------------------------------------------------
\* _get_query_slice

\* the deep-pagination test of _get_query_slice
ExceedsWindow_StartTwice(start_slice, end_slice) ==
    start_slice + start_slice > ELASTICSEARCH_MAX_RESULT_WINDOW

ExceedsWindow(start_slice, end_slice) ==
    start_slice + end_slice > ELASTICSEARCH_MAX_RESULT_WINDOW

\* the slice of a page when dead links are not filtered
PlainSlice_Inflated(page_size, page) ==
    [start |-> page_size * (page - 1), end |-> InflatedEnd(page_size, page)]

PlainSlice(page_size, page) ==
    [start |-> page_size * (page - 1), end |-> page_size * page]

\* The slice and whether ValueError(DEEP_PAGINATION_ERROR) is raised.
_get_query_slice(query_mask, page_size, page, filter_dead) ==
    LET sl == IF filter_dead
              THEN _paginate_with_dead_link_mask(query_mask, page_size, page)
              ELSE PlainSlice(page_size, page)
    IN  [start |-> sl.start, end |-> sl.end,
         raised |-> ExceedsWindow(sl.start, sl.end)]

----------------------------------------------------------------------------
\* The index

\* s[start:end].execute(): the hits of ranks start .. end - 1 that the index
\* has, in rank order.  The slice sets from = start and
\* size = max(0, end - start), so an empty or inverted slice fetches nothing.
ExecuteOn(matches, start, end) ==
    [i \in 1 .. Max(0, Min(end, Len(matches)) - start) |-> start + i - 1]

Execute(start, end) == ExecuteOn(index, start, end)

----------------------------------------------------------------------------
\* Requests

Idle ==
    [pc |-> "idle", query |-> "none", page_size |-> 0, page |-> 0,
     filter_dead |-> FALSE, start |-> 0, end |-> 0, hits |-> <<>>,
     results |-> <<>>, depth |-> 0, queries |-> 0,
     result_count |-> 0, page_count |-> 0, validations |-> 0]

NoSession == [page_size |-> 0, pages |-> <<>>, failed |-> FALSE]

\* end += int(end / 2)
WidenEnd_Quarter(end) == end + end \div 4

WidenEnd(end) == end + end \div 2

\* return results[:page_size]
ReturnResults_Untruncated(results, page_size) == results

ReturnResults(results, page_size) == Take(results, page_size)

\* results after validate_images(query_hash, start, results, to_validate) has
\* deleted the dead hits from it
AcceptedHits_Unfiltered(hits) == hits

AcceptedHits(hits) == validate_images(hits)

\* response_obj.hits.total.value of the first response: the number of hits of
\* the query in the index (the index does not change during a request)
TotalHits == Len(index)

\* int((5000 + page_size / 2) / page_size), which is
\* floor((10000 + page_size) / (2 * page_size))
LastAllowedPage(page_size) ==
    (DEEP_PAGINATION_DEPTH * 2 + page_size) \div (2 * page_size)

PageCount_Natural(total, page_size) == total \div page_size

PageCount(total, page_size) ==
    Min(total \div page_size, LastAllowedPage(page_size))

ResultCount_Total(total, results, page_size) == total

ResultCount(total, results, page_size) ==
    IF Len(results) < page_size /\ PageCount(total, page_size) = 0
    THEN Len(results)
    ELSE total

_get_result_and_page_count(total, results, page_size) ==
    [result_count |-> ResultCount(total, results, page_size),
     page_count |-> PageCount(total, page_size)]

\* The request r once _post_process_results has returned results: the caller
\* computes the counts of the response from the first response's total.
Returned(r, results) ==
    LET counts == _get_result_and_page_count(TotalHits, results, r.page_size)
    IN  [r EXCEPT !.pc = "done", !.results = results,
                  !.result_count = counts.result_count,
                  !.page_count = counts.page_count]

\* search() from _get_query_slice to the first s.execute(), and the same
\* lines of related_images(): the slice is computed from the cached mask, a
\* deep-pagination error ends the request before any query is executed,
\* otherwise the query is executed over the slice.
BeginRequestOn(matches, p, query, page_size, page, filter_dead) ==
    LET sl == _get_query_slice(get_query_mask(query), page_size, page,
                               filter_dead)
    IN  req' = [req EXCEPT ![p] =
            [pc |-> IF sl.raised THEN "error" ELSE "post",
             query |-> query, page_size |-> page_size, page |-> page,
             filter_dead |-> filter_dead, start |-> sl.start, end |-> sl.end,
             hits |-> IF sl.raised THEN <<>>
                      ELSE ExecuteOn(matches, sl.start, sl.end),
             results |-> <<>>, depth |-> 0,
             queries |-> IF sl.raised THEN 0 ELSE 1,
             result_count |-> 0, page_count |-> 0, validations |-> 0]]

BeginRequest(p, query, page_size, page, filter_dead) ==
    BeginRequestOn(index, p, query, page_size, page, filter_dead)

search(p, page_size, page, filter_dead) ==
    /\ req[p].pc = "idle"
    /\ BeginRequest(p, "search", page_size, page, filter_dead)
    /\ UNCHANGED <<index, cacheUp, mask, session, providerVars, nonSearchVars>>

related_images(p, filter_dead) ==
    /\ req[p].pc = "idle"
    /\ BeginRequest(p, "related", RELATED_PAGE_SIZE, 1, filter_dead)
    /\ UNCHANGED <<index, cacheUp, mask, session, providerVars, nonSearchVars>>

\* One invocation of _post_process_results on the hits just fetched, up to its
\* return or its recursive call (which starts with the query executed over
\* the widened slice).  The interpreter ends a recursion deeper than its
\* stack limit (MaxDepth here) with RecursionError: pc = "overflow".
_post_process_results(p) ==
    LET r == req[p]
        validated == AcceptedHits(r.hits)
        end == WidenEnd(r.end)
    IN  /\ r.pc = "post"
        /\ IF ~r.filter_dead
           THEN /\ req' = [req EXCEPT ![p] =
                               Returned(r, ReturnResults(r.hits, r.page_size))]
                /\ mask' = mask
           ELSE /\ mask' = save_query_mask(r.query, r.start, r.hits)
                /\ IF Len(validated) < r.page_size
                   THEN IF ExceedsWindow(r.start, end)
                        THEN req' = [req EXCEPT ![p] =
                                 Returned([r EXCEPT !.end = end,
                                                    !.validations = @ + 1],
                                          validated)]
                        ELSE IF r.depth >= MaxDepth
                        THEN req' = [req EXCEPT ![p].pc = "overflow",
                                         ![p].end = end,
                                         ![p].validations = @ + 1,
                                         ![p].results = validated]
                        ELSE req' = [req EXCEPT ![p].end = end,
                                         ![p].hits = Execute(r.start, end),
                                         ![p].results = validated,
                                         ![p].depth = @ + 1,
                                         ![p].queries = @ + 1,
                                         ![p].validations = @ + 1]
                   ELSE req' = [req EXCEPT ![p] =
                            Returned([r EXCEPT !.validations = @ + 1],
                                     ReturnResults(validated, r.page_size))]
        /\ UNCHANGED <<index, cacheUp, session, providerVars, nonSearchVars>>

\* The caller takes the response (or the error) of the request.
Respond(p) ==
    /\ req[p].pc \in {"done", "error", "overflow"}
    /\ req' = [req EXCEPT ![p] = Idle]
    /\ UNCHANGED <<index, cacheUp, mask, session, providerVars, nonSearchVars>>

----------------------------------------------------------------------------
\* Spec: one caller at a time, any request, the cache reachable or not

\* No document of a flagged provider matches the query; nothing is flagged.
NoProviders ==
    /\ provider_docs = <<>>
    /\ registry = {}
    /\ filter_cache = {}

\* the username of a moderator and the id of a media item
Moderators == {"one", "two"}

ObjectIds == {10, 11}

LockProcs == {"m1", "m2"}

NoLock == -1

\* a return value: None, or an expiration or score (value), or the
\* valid_locks mapping (locks), or a set of moderators (mods)
None == [none |-> TRUE, value |-> 0, locks |-> {}, mods |-> {}]

LmIdle ==
    [pc |-> "idle", op |-> "none", username |-> "one", object_id |-> 10,
     now |-> 0, pipe |-> {}, valid_locks |-> {}, failed |-> FALSE,
     ret |-> None]

\* No lock is held, no LockManager operation is running, the clock stands.
LocksAtRest ==
    /\ redisUp = TRUE
    /\ locks = [k \in Moderators \X ObjectIds |-> NoLock]
    /\ now = 0
    /\ lm = [p \in LockProcs |-> LmIdle]
    /\ last_op = [k \in Moderators \X ObjectIds |->
                      [op |-> "none", expiration |-> 0]]

\* the event loops, and the tasks that call get_aiohttp_session() with the
\* loop each runs on
Loops == {"loop_1", "loop_2"}

Tasks == {"t1", "t2", "t3"}

LoopOf(t) == IF t = "t3" THEN "loop_2" ELSE "loop_1"

AioIdle == [pc |-> "idle", ret |-> 0]

\* No session exists and no task is in a call.
AioAtRest ==
    /\ _SESSIONS = [l \in Loops |-> 0]
    /\ _LOCKS = [l \in Loops |-> "none"]
    /\ sessions = <<>>
    /\ aio = [t \in Tasks |-> AioIdle]

ShutdownIdle ==
    [pc |-> "idle", session |-> 0, popped |-> {}, closed_sessions |-> 0]

\* The application is not shutting down.
ShutdownAtRest == shutdown = ShutdownIdle

ViewIdle ==
    [pc |-> "idle", name |-> "none", user |-> "one", object_id |-> 10,
     failed |-> FALSE, locked_media |-> {}, mods |-> {}]

\* No admin view is being served.
AdminAtRest == view = ViewIdle

PaIdle ==
    [pc |-> "idle", target_index |-> "none", target_alias |-> "",
     should_delete_old_index |-> FALSE, existing_index |-> "None"]

\* No point_alias run is in progress.
AliasAtRest == pa = PaIdle

\* The cluster is empty and no reindex is running.
SyncIdle ==
    [pc |-> "idle", write_index |-> "none", consistent |-> TRUE,
     old |-> "none", runs |-> 0, had_live |-> FALSE]

SyncAtRest ==
    /\ es_indices = {}
    /\ es_aliases = {}
    /\ complete = {}
    /\ sync = SyncIdle

\* a Python value of get_providers: None, a list of buckets (the old cache
\* format) or a dictionary; items are the pairs <<key, doc_count>>
NoValue == [kind |-> "None", items |-> {}]

NoCall == [kind |-> "nocall", items |-> {}]

\* The index 'image' exists and is empty, nothing is cached, no call was made.
CountsAtRest ==
    /\ es_providers =
           [exists |-> TRUE,
            count |-> [p \in {"spammy_source", "other"} |-> 0]]
    /\ providers_cache = NoValue
    /\ providers_ret = NoCall

\* The other components at rest.
OthersAtRest ==
    /\ LocksAtRest
    /\ AioAtRest
    /\ SyncAtRest
    /\ CountsAtRest
    /\ ShutdownAtRest
    /\ AdminAtRest
    /\ AliasAtRest

Init ==
    /\ NoProviders
    /\ OthersAtRest
    /\ index \in SmallIndexes \cup {BigIndex}
    /\ cacheUp \in BOOLEAN
    /\ mask = [q \in Fingerprints |-> <<>>]
    /\ req = [p \in Procs |-> Idle]
    /\ session = NoSession

Next ==
    \/ \E page_size \in PageSizes, page \in Pages, filter_dead \in BOOLEAN :
           search("a", page_size, page, filter_dead)
    \/ \E filter_dead \in BOOLEAN : related_images("a", filter_dead)
    \/ _post_process_results("a")
    \/ Respond("a")

Spec == Init /\ [][Next]_vars

----------------------------------------------------------------------------
\* Properties of Spec

\* the worst-case inflated end of a request, ceil(page_size * page / (1 - 1/2))
WorstCaseEnd(r) ==
    CeilDiv(r.page_size * r.page * DEAD_LINK_RATIO_DEN,
            DEAD_LINK_RATIO_DEN - DEAD_LINK_RATIO_NUM)

\* rank x is the k-th live entry of mask m
IsKthLive(m, x, k) ==
    /\ x >= 0
    /\ x < Len(m)
    /\ m[x + 1] = 1
    /\ Cardinality({j \in 1 .. x + 1 : m[j] = 1}) = k

\* C2, as claimed: every filter_dead request whose worst-case inflated end
\* exceeds the result window, in any mask state, has raised the
\* deep-pagination error and executed no index query.
C2_InflatedEndBeyondWindowAlwaysRaises ==
    \A p \in Procs :
        (/\ req[p].pc # "idle"
         /\ req[p].filter_dead
         /\ WorstCaseEnd(req[p]) > ELASTICSEARCH_MAX_RESULT_WINDOW)
        => (req[p].pc = "error" /\ req[p].queries = 0)

\* C2, amended: a filter_dead request whose worst-case inflated end exceeds
\* the result window, made while the mask of its query records fewer than
\* page_size * page live ranks (so that the inflated end is the end of its
\* slice), raises the deep-pagination error and executes no index query.
C2_InflatedSliceBeyondWindowRaises ==
    [][\A p \in Procs :
          (/\ req[p].pc = "idle"
           /\ req'[p].pc # "idle"
           /\ req'[p].filter_dead
           /\ WorstCaseEnd(req'[p]) > ELASTICSEARCH_MAX_RESULT_WINDOW
           /\ MaskSum(get_query_mask(req'[p].query))
                  < req'[p].page_size * req'[p].page)
          => (req'[p].pc = "error" /\ req'[p].queries = 0)]_vars

\* C2 witness: a request over a non-empty mask was rejected for its inflated end.
C2_Witness ==
    /\ req["a"].pc = "error"
    /\ req["a"].filter_dead
    /\ req["a"].queries = 0
    /\ WorstCaseEnd(req["a"]) > ELASTICSEARCH_MAX_RESULT_WINDOW
    /\ req["a"].end = WorstCaseEnd(req["a"])
    /\ mask["search"] # <<>>

\* C3, as claimed: a request is rejected exactly when the end of its slice
\* exceeds the maximum result window.
C3_RaisesExactlyWhenEndExceedsWindow ==
    \A p \in Procs :
        /\ req[p].pc = "error"
               => req[p].end > ELASTICSEARCH_MAX_RESULT_WINDOW
        /\ (req[p].pc = "post" /\ req[p].depth = 0)
               => req[p].end <= ELASTICSEARCH_MAX_RESULT_WINDOW

\* C5: a result list returned by search() or related_images() has at most
\* page_size elements.
C5_AtMostPageSizeResults ==
    \A p \in Procs :
        req[p].pc = "done" => Len(req[p].results) <= req[p].page_size

\* C5 witness: a request that had widened returned exactly page_size results,
\* cut from a longer list of live hits.
C5_Witness ==
    /\ req["a"].pc = "done"
    /\ req["a"].filter_dead
    /\ Len(req["a"].results) = req["a"].page_size
    /\ Len(validate_images(req["a"].hits)) > req["a"].page_size
    /\ req["a"].depth > 0

\* C6: when the mask records at least page_size * page live ranks, the slice
\* starts at the rank of the (page_size * (page - 1) + 1)-th live entry (0 for
\* page 1), ends one past the rank of the (page_size * page)-th live entry,
\* and holds exactly page_size live ranks of the mask.
C6_SliceFromMask ==
    \A p \in Procs :
        LET r == req[p]
            m == get_query_mask(r.query)
        IN  (/\ r.pc = "post"
             /\ r.depth = 0
             /\ r.filter_dead
             /\ MaskSum(m) >= r.page_size * r.page)
            => /\ IF r.page = 1
                  THEN r.start = 0
                  ELSE IsKthLive(m, r.start, r.page_size * (r.page - 1) + 1)
               /\ IsKthLive(m, r.end - 1, r.page_size * r.page)
               /\ Cardinality({j \in r.start + 1 .. r.end : m[j] = 1})
                      = r.page_size

\* C6 witness: a slice for a page beyond the first, cut from a mask that has
\* dead ranks inside the slice.
C6_Witness ==
    LET r == req["a"]
        m == get_query_mask(r.query)
    IN  /\ r.pc = "post"
        /\ r.depth = 0
        /\ r.filter_dead
        /\ r.page > 1
        /\ MaskSum(m) >= r.page_size * r.page
        /\ \E j \in r.start + 1 .. r.end : m[j] = 0

\* the live hits of the index, in rank order
LiveIndexRanks ==
    SelectSeq([i \in 1 .. Len(index) |-> i - 1], IsLive)

\* the page-th block of page_size live hits
PageBlock(page_size, page) ==
    SubSeq(LiveIndexRanks, page_size * (page - 1) + 1,
           Min(page_size * page, Len(LiveIndexRanks)))

\* C4, as claimed: with the cache unreachable a filter_dead search() that
\* returns, returns the page-th block of page_size live results, as it does
\* for pages walked in order with a working cache.
C4_UnreachableCacheSamePage ==
    \A p \in Procs :
        (/\ ~cacheUp
         /\ req[p].pc = "done"
         /\ req[p].query = "search"
         /\ req[p].filter_dead)
        => req[p].results = PageBlock(req[p].page_size, req[p].page)

\* process p makes a recursive call of _post_process_results in this step
Recurses(p) == _post_process_results(p) /\ req'[p].pc = "post"

\* C7, as claimed: every recursive call is made with an end strictly greater
\* than the end before it, larger by at least half of the span end - start,
\* and the recursion goes on until page_size live results are found or the
\* result window is exceeded.
C7_WideningStrictlyByHalfSpan ==
    [][\A p \in Procs :
          /\ Recurses(p) =>
                 /\ req'[p].end > req[p].end
                 /\ 2 * (req'[p].end - req[p].end) >= req[p].end - req[p].start
          /\ (/\ _post_process_results(p)
              /\ req[p].filter_dead
              /\ req'[p].pc \in {"done", "overflow"})
             => \/ Len(req'[p].results) = req[p].page_size
                \/ req[p].start + req'[p].end
                       > ELASTICSEARCH_MAX_RESULT_WINDOW]_vars

\* C8, as claimed: the widening recursion terminates, within a number of
\* recursive calls that stays below a hard cap: it never runs into the
\* interpreter's limit.
C8_WideningTerminatesWithinCap ==
    \A p \in Procs : req[p].pc # "overflow" /\ req[p].depth < MaxDepth

\* the number of live hits among the fetched hits of a request
LiveFetched(r) == Cardinality({i \in 1 .. Len(r.hits) : IsLive(r.hits[i])})

\* C9 (returned list): the list a filter_dead request returns holds only hits
\* of the fetched slice whose probe answered 200, in rank order, skips no live
\* hit before its last element, and is cut to page_size.
C9_ReturnedLive(r) ==
    /\ \A i \in 1 .. Len(r.results) :
           /\ IsLive(r.results[i])
           /\ r.results[i] >= r.start
           /\ r.results[i] < r.start + Len(r.hits)
           /\ i > 1 => r.results[i - 1] < r.results[i]
    /\ Len(r.results) = Min(r.page_size, LiveFetched(r))
    /\ r.results # <<>> =>
           Cardinality({i \in 1 .. Len(r.hits) :
                            /\ IsLive(r.hits[i])
                            /\ r.hits[i] <= r.results[Len(r.results)]})
               = Len(r.results)

\* C9: with filter_dead, the returned list is the subsequence of the fetched
\* hits classified live, in rank order, cut to the first page_size; and the
\* live hits accepted from a narrower slice are a prefix of those accepted
\* from the widened one.
C9_LiveSubsequenceInRankOrder ==
    /\ [](\A p \in Procs :
              (req[p].pc = "done" /\ req[p].filter_dead)
              => C9_ReturnedLive(req[p]))
    /\ [][\A p \in Procs :
              (_post_process_results(p) /\ req[p].filter_dead)
              => IsPrefix(req[p].results, req'[p].results)]_vars

\* C9 witness: a widened request returned a full page after dropping a hit
\* that timed out and a hit that answered 403.
C9_Witness ==
    LET r == req["a"]
    IN  /\ r.pc = "done"
        /\ r.filter_dead
        /\ r.depth > 0
        /\ Len(r.results) = r.page_size
        /\ \E i \in 1 .. Len(r.hits) : index[r.hits[i] + 1] = "timeout"
        /\ \E i \in 1 .. Len(r.hits) : index[r.hits[i] + 1] = "403"

\* C11: a returned request's result_count is the number of results returned
\* when fewer than page_size results are returned and the natural page count
\* (total hits divided by page_size, rounded down) is 0; in every other case
\* it is the total hit count of the index.
C11_ResultCountCorrected ==
    \A p \in Procs :
        req[p].pc = "done" =>
            req[p].result_count =
                IF /\ Len(req[p].results) < req[p].page_size
                   /\ TotalHits \div req[p].page_size = 0
                THEN Len(req[p].results)
                ELSE TotalHits

\* C11 witness: a filtered search returned fewer live results than both
\* page_size and the total, and reports the number returned.
C11_Witness ==
    /\ req["a"].pc = "done"
    /\ req["a"].query = "search"
    /\ req["a"].filter_dead
    /\ Len(req["a"].results) > 0
    /\ Len(req["a"].results) < TotalHits
    /\ TotalHits < req["a"].page_size
    /\ req["a"].result_count = Len(req["a"].results)

\* the page count allowed for a page size by the deep-pagination depth alone
MaxAllowedPageCount(page_size) ==
    (2 * DEEP_PAGINATION_DEPTH + page_size) \div (2 * page_size)

\* C12: the page_count of a returned search is the smaller of the natural
\* page count and the page count allowed for its page_size, so it never
\* exceeds the allowed page count whatever the total.
C12_PageCountCapped ==
    \A p \in Procs :
        (req[p].pc = "done" /\ req[p].query = "search") =>
            /\ req[p].page_count =
                   Min(TotalHits \div req[p].page_size,
                       MaxAllowedPageCount(req[p].page_size))
            /\ req[p].page_count <= MaxAllowedPageCount(req[p].page_size)

\* C12 witness: a search over more natural pages than are allowed returned
\* the allowed page count.
C12_Witness ==
    /\ req["a"].pc = "done"
    /\ req["a"].query = "search"
    /\ TotalHits \div req["a"].page_size
           > MaxAllowedPageCount(req["a"].page_size)
    /\ req["a"].page_count = MaxAllowedPageCount(req["a"].page_size)

\* C14: a request with filter_dead = false has the slice
\* [page_size * (page - 1), page_size * page), executes one index query, calls
\* no validation (no probe), and returns the hits fetched, in order, at most
\* page_size of them; no step of it changes the liveness mask.
C14_UnfilteredRequest ==
    /\ [](\A p \in Procs :
            (req[p].pc \in {"post", "done"} /\ ~req[p].filter_dead) =>
                /\ req[p].start = req[p].page_size * (req[p].page - 1)
                /\ req[p].end = req[p].page_size * req[p].page
                /\ req[p].queries = 1
                /\ req[p].validations = 0
                /\ req[p].pc = "done" =>
                       /\ req[p].results = Execute(req[p].start, req[p].end)
                       /\ Len(req[p].results) <= req[p].page_size)
    /\ [][\A p \in Procs :
            (req[p].pc \in {"post", "done"} /\ ~req[p].filter_dead) =>
                mask' = mask]_vars

\* C14 witness: an unfiltered page 2 was returned with a dead hit in it, while
\* the cache holds a mask of the query.
C14_Witness ==
    /\ req["a"].pc = "done"
    /\ req["a"].query = "search"
    /\ ~req["a"].filter_dead
    /\ req["a"].page = 2
    /\ mask["search"] # <<>>
    /\ \E i \in 1 .. Len(req["a"].results) : ~IsLive(req["a"].results[i])

\* the slice [start, end) of the request r already covers every hit the index
\* has for the query
CoversIndex(r) == r.end >= TotalHits

\* C21: when _post_process_results is called on a filter_dead request whose
\* slice [start, end) already covers every hit of the index and fewer than
\* page_size live hits remain after validation, that call issues no further
\* index query and the request returns the live hits found.
C21_NoWideningOnceIndexExhausted ==
    [][\A p \in Procs :
          (/\ req[p].pc = "post"
           /\ req[p].filter_dead
           /\ CoversIndex(req[p])
           /\ Len(AcceptedHits(req[p].hits)) < req[p].page_size
           /\ req'[p] # req[p]) =>
              /\ req'[p].pc = "done"
              /\ req'[p].queries = req[p].queries
              /\ req'[p].results = AcceptedHits(req[p].hits)]_vars

\* C25: the slice _paginate_with_dead_link_mask computes for a filter_dead
\* request, from whatever mask the cache holds, is well formed and non-empty:
\* 0 <= start < end.
C25_SliceWellFormed ==
    \A p \in Procs :
        (req[p].pc \in {"post", "error"} /\ req[p].depth = 0
             /\ req[p].filter_dead) =>
            (0 <= req[p].start /\ req[p].start < req[p].end)

\* C26: once search() has reported page_count, a search() for any page
\* 1 .. page_count with the same page_size and filter_dead, made with the
\* mask the cache then holds, does not raise the deep-pagination error.
C26_AdvertisedPagesReachable ==
    \A p \in Procs :
        (req[p].pc = "done" /\ req[p].query = "search") =>
            \A page \in 1 .. req[p].page_count :
                ~_get_query_slice(get_query_mask("search"), req[p].page_size,
                                  page, req[p].filter_dead).raised

----------------------------------------------------------------------------
\* SpecProviders: searches for a query whose matching documents all belong
\* to the provider "spammy_source", while the registry flags providers and
\* the cached list of filtered providers expires.

Providers == {"spammy_source", "other"}

\* filtered_providers of search(): the cached list, or when there is none
\* (or it is empty) the providers flagged in the registry
FilteredProviders ==
    IF filter_cache # {} THEN filter_cache ELSE registry

\* the hits of the query once every filtered provider is excluded
Matches(filtered_providers) ==
    IF "spammy_source" \in filtered_providers THEN <<>> ELSE provider_docs

\* search() with its provider filter: the list of filtered providers is
\* read (and cached when it had to be loaded), the query excludes them, and
\* the request starts on the hits that remain.
search_providers(p, page_size, page, filter_dead) ==
    /\ req[p].pc = "idle"
    /\ filter_cache' = FilteredProviders
    /\ index' = Matches(FilteredProviders)
    /\ BeginRequestOn(Matches(FilteredProviders), p, "search", page_size,
                      page, filter_dead)
    /\ UNCHANGED <<cacheUp, mask, session, provider_docs, registry,
                   nonSearchVars>>

\* An administrator sets filter_content = True on a provider.
FlagProvider(provider) ==
    /\ provider \notin registry
    /\ registry' = registry \cup {provider}
    /\ UNCHANGED <<index, cacheUp, mask, req, session, provider_docs,
                   filter_cache, nonSearchVars>>

\* The cached list reaches its CACHE_TIMEOUT.
ExpireFilterCache ==
    /\ filter_cache # {}
    /\ filter_cache' = {}
    /\ UNCHANGED <<index, cacheUp, mask, req, session, provider_docs,
                   registry, nonSearchVars>>

InitProviders ==
    /\ OthersAtRest
    /\ provider_docs \in UNION {[1 .. n -> {"200", "403"}] : n \in 1 .. MaxConcHits}
    /\ registry = {}
    /\ filter_cache = {}
    /\ index = provider_docs
    /\ cacheUp = TRUE
    /\ mask = [q \in Fingerprints |-> <<>>]
    /\ req = [p \in Procs |-> Idle]
    /\ session = NoSession

NextProviders ==
    \/ \E page_size \in {1, 2}, page \in {1, 2}, filter_dead \in BOOLEAN :
           search_providers("a", page_size, page, filter_dead)
    \/ \E provider \in Providers : FlagProvider(provider)
    \/ ExpireFilterCache
    \/ _post_process_results("a")
    \/ Respond("a")

SpecProviders == InitProviders /\ [][NextProviders]_vars

----------------------------------------------------------------------------
\* Moderation locks, after api/utils/moderation_lock.py.  Every operation
\* opens the Redis connection first; with the store unreachable that raises
\* ConnectionError, which handle_redis_exception turns into None.

Pairs == Moderators \X ObjectIds

\* an operation that ended, with its return value
LmDone(op, username, object_id, failed, ret) ==
    [pc |-> "done", op |-> op, username |-> username,
     object_id |-> object_id, now |-> now, pipe |-> {}, valid_locks |-> {},
     failed |-> failed, ret |-> ret]

IntValue(v) == [none |-> FALSE, value |-> v, locks |-> {}, mods |-> {}]

\* expiration = int(time.time()) + TTL
Expiration(t) == t + TTL

\* zadd and zrem on the sorted set of the username of pair k
ZAdd(zsets, k, lock_score) == [zsets EXCEPT ![k] = lock_score]

ZRem_WholeKey(zsets, k) ==
    [j \in DOMAIN zsets |-> IF j[1] = k[1] THEN NoLock ELSE zsets[j]]

ZRem(zsets, k) == [zsets EXCEPT ![k] = NoLock]

\* zadd(key, {object: expiration}): the member's score is set or replaced
add_locks(p, username, object_id) ==
    /\ lm[p].pc = "idle"
    /\ IF redisUp
       THEN /\ locks' = ZAdd(locks, <<username, object_id>>, Expiration(now))
            /\ last_op' = [last_op EXCEPT ![<<username, object_id>>] =
                               [op |-> "add", expiration |-> Expiration(now)]]
            /\ lm' = [lm EXCEPT ![p] =
                   LmDone("add_locks", username, object_id, FALSE,
                          IntValue(Expiration(now)))]
       ELSE /\ UNCHANGED <<locks, last_op>>
            /\ lm' = [lm EXCEPT ![p] =
                   LmDone("add_locks", username, object_id, TRUE, None)]
    /\ UNCHANGED <<redisUp, now, nonLockVars>>

\* zrem(key, object); the method returns nothing
remove_locks(p, username, object_id) ==
    /\ lm[p].pc = "idle"
    /\ IF redisUp
       THEN /\ locks' = ZRem(locks, <<username, object_id>>)
            /\ last_op' = [last_op EXCEPT ![<<username, object_id>>] =
                               [op |-> "remove", expiration |-> 0]]
       ELSE UNCHANGED <<locks, last_op>>
    /\ lm' = [lm EXCEPT ![p] =
           LmDone("remove_locks", username, object_id, ~redisUp, None)]
    /\ UNCHANGED <<redisUp, now, nonLockVars>>

\* zscore(key, object): the score, None when the member is absent
score(p, username, object_id) ==
    /\ lm[p].pc = "idle"
    /\ lm' = [lm EXCEPT ![p] =
           LmDone("score", username, object_id, ~redisUp,
                  IF redisUp /\ locks[<<username, object_id>>] # NoLock
                  THEN IntValue(locks[<<username, object_id>>])
                  ELSE None)]
    /\ UNCHANGED <<redisUp, locks, now, last_op, nonLockVars>>

\* what prune() (op = "prune") and moderator_set() (op = "moderator_set")
\* return for the valid locks found; valid_locks is None after a
\* ConnectionError, and moderator_set uses {} in its place
PruneReturn_NoDefault(op, object_id, failed, valid_locks) ==
    IF failed THEN None
    ELSE IF op = "prune"
    THEN [none |-> FALSE, value |-> 0, locks |-> valid_locks, mods |-> {}]
    ELSE [none |-> FALSE, value |-> 0, locks |-> {},
          mods |-> {u \in Moderators : <<u, object_id>> \in valid_locks}]

PruneReturn(op, object_id, failed, valid_locks) ==
    IF op = "prune"
    THEN IF failed THEN None
         ELSE [none |-> FALSE, value |-> 0, locks |-> valid_locks, mods |-> {}]
    ELSE [none |-> FALSE, value |-> 0, locks |-> {},
          mods |-> IF failed THEN {}
                   ELSE {u \in Moderators : <<u, object_id>> \in valid_locks}]

\* score <= now
IsExpired_Strict(lock_score, t) == lock_score < t

IsExpired(lock_score, t) == lock_score <= t

\* prune() up to pipe.execute(): now is read, the sorted set of every
\* moderator is read, a zrem is queued for every expired lock and the other
\* locks are collected.  Called as prune() or from moderator_set(object_id).
prune_read(p, op, object_id) ==
    /\ lm[p].pc = "idle"
    /\ IF redisUp
       THEN lm' = [lm EXCEPT ![p] =
                [pc |-> "pruning", op |-> op, username |-> "one",
                 object_id |-> object_id, now |-> now,
                 pipe |-> {k \in Pairs : locks[k] # NoLock
                                         /\ IsExpired(locks[k], now)},
                 valid_locks |-> {k \in Pairs : locks[k] # NoLock
                                                /\ ~IsExpired(locks[k], now)},
                 failed |-> FALSE, ret |-> None]]
       ELSE lm' = [lm EXCEPT ![p] =
                LmDone(op, "one", object_id, TRUE,
                       PruneReturn(op, object_id, TRUE, {}))]
    /\ UNCHANGED <<redisUp, locks, now, last_op, nonLockVars>>

\* pipe.execute() and the return of prune() or moderator_set(): the queued
\* zrem commands are applied together.
prune_execute(p) ==
    /\ lm[p].pc = "pruning"
    /\ locks' = IF redisUp
                THEN [k \in Pairs |-> IF k \in lm[p].pipe THEN NoLock
                                      ELSE locks[k]]
                ELSE locks
    /\ lm' = [lm EXCEPT ![p].pc = "done",
                        ![p].failed = ~redisUp,
                        ![p].ret = PruneReturn(lm[p].op, lm[p].object_id,
                                               ~redisUp, lm[p].valid_locks)]
    /\ UNCHANGED <<redisUp, now, last_op, nonLockVars>>

\* The caller takes the return value.
LmReturn(p) ==
    /\ lm[p].pc = "done"
    /\ lm' = [lm EXCEPT ![p] = LmIdle]
    /\ UNCHANGED <<redisUp, locks, now, last_op, nonLockVars>>

\* time passes
Tick ==
    /\ now + ClockStep <= MaxTime
    /\ now' = now + ClockStep
    /\ UNCHANGED <<redisUp, locks, lm, last_op, nonLockVars>>

\* the store becomes unreachable, or reachable again
RedisOutage ==
    /\ redisUp
    /\ redisUp' = FALSE
    /\ UNCHANGED <<locks, now, lm, last_op, nonLockVars>>

RedisRecovery ==
    /\ ~redisUp
    /\ redisUp' = TRUE
    /\ UNCHANGED <<locks, now, lm, last_op, nonLockVars>>

\* The search component at rest.
SearchAtRest ==
    /\ NoProviders
    /\ index = <<>>
    /\ cacheUp = TRUE
    /\ mask = [q \in Fingerprints |-> <<>>]
    /\ req = [p \in Procs |-> Idle]
    /\ session = NoSession

\* SpecLocks: one moderation client at a time
InitLocks ==
    /\ SearchAtRest
    /\ LocksAtRest
    /\ ShutdownAtRest
    /\ AliasAtRest
    /\ AdminAtRest
    /\ CountsAtRest
    /\ AioAtRest
    /\ SyncAtRest

NextLocks ==
    \/ \E username \in Moderators, object_id \in ObjectIds :
           \/ add_locks("m1", username, object_id)
           \/ remove_locks("m1", username, object_id)
           \/ score("m1", username, object_id)
    \/ prune_read("m1", "prune", 10)
    \/ \E object_id \in ObjectIds : prune_read("m1", "moderator_set", object_id)
    \/ prune_execute("m1")
    \/ LmReturn("m1")
    \/ Tick
    \/ RedisOutage
    \/ RedisRecovery

SpecLocks == InitLocks /\ [][NextLocks]_vars

\* the empty set of moderators, as a return value
NoModerators == [none |-> FALSE, value |-> 0, locks |-> {}, mods |-> {}]

\* C15: with the store unreachable every LockManager operation ends without
\* an error: add_locks, remove_locks, score and prune return None, and
\* moderator_set returns the empty set; with the store reachable add_locks
\* stores and returns an expiration, and score returns the stored expiration.
C15_UnreachableStoreReturnsNone ==
    [][\A p \in LockProcs, u \in Moderators, o \in ObjectIds :
         /\ (~redisUp /\ (\/ add_locks(p, u, o)
                          \/ remove_locks(p, u, o)
                          \/ score(p, u, o)
                          \/ prune_read(p, "prune", o)))
                => (lm'[p].pc = "done" /\ lm'[p].ret = None /\ locks' = locks)
         /\ (~redisUp /\ prune_read(p, "moderator_set", o))
                => (lm'[p].pc = "done" /\ lm'[p].ret = NoModerators)
         /\ (~redisUp /\ prune_execute(p))
                => /\ lm'[p].pc = "done"
                   /\ locks' = locks
                   /\ lm'[p].ret = IF lm[p].op = "prune" THEN None
                                   ELSE NoModerators
         /\ (redisUp /\ add_locks(p, u, o))
                => /\ lm'[p].pc = "done"
                   /\ ~lm'[p].ret.none
                   /\ locks'[<<u, o>>] = lm'[p].ret.value
         /\ (redisUp /\ score(p, u, o) /\ locks[<<u, o>>] # NoLock)
                => /\ lm'[p].pc = "done"
                   /\ ~lm'[p].ret.none
                   /\ lm'[p].ret.value = locks[<<u, o>>]]_vars

\* C15 witness: moderator_set ended with the empty set because the store
\* became unreachable before pipe.execute(), while a valid lock is stored.
C15_Witness ==
    /\ lm["m1"].pc = "done"
    /\ lm["m1"].op = "moderator_set"
    /\ lm["m1"].failed
    /\ lm["m1"].ret = NoModerators
    /\ \E u \in Moderators :
           /\ locks[<<u, lm["m1"].object_id>>] # NoLock
           /\ locks[<<u, lm["m1"].object_id>>] > now

\* C16: while no lock can have expired (the clock is before the first
\* possible expiration), moderator_set(o) returns exactly the usernames whose
\* most recent add_locks or remove_locks on o was add_locks; add_locks and
\* remove_locks for a pair leave the lock of every other pair unchanged.
C16_ModeratorSetIsLastAdded ==
    /\ [](\A p \in LockProcs :
            (/\ lm[p].pc = "done"
             /\ lm[p].op = "moderator_set"
             /\ ~lm[p].failed
             /\ lm[p].now < TTL)
            => lm[p].ret.mods =
                   {u \in Moderators :
                        last_op[<<u, lm[p].object_id>>].op = "add"})
    /\ [][\A p \in LockProcs, u \in Moderators, o \in ObjectIds :
            (add_locks(p, u, o) \/ remove_locks(p, u, o))
            => \A k \in Pairs \ {<<u, o>>} : locks'[k] = locks[k]]_vars

\* C16 witness: moderator_set(10) returned {"one"} after "two" added and
\* removed its lock on 10, while "two" holds a lock on 11.
C16_Witness ==
    /\ lm["m1"].pc = "done"
    /\ lm["m1"].op = "moderator_set"
    /\ lm["m1"].object_id = 10
    /\ ~lm["m1"].failed
    /\ lm["m1"].now < TTL
    /\ lm["m1"].ret.mods = {"one"}
    /\ last_op[<<"two", 10>>].op = "remove"
    /\ last_op[<<"two", 11>>].op = "add"
    /\ locks[<<"two", 11>>] # NoLock

\* C17: add_locks at time t sets the expiration of the pair to t + TTL,
\* whatever it was; moderator_set(o) at time t contains a username whose
\* last operation on o was add_locks exactly when t is before the expiration
\* that add_locks set; a prune leaves no lock with an expiration <= its now.
C17_LockExpiry ==
    /\ [](\A p \in LockProcs :
            (/\ lm[p].pc = "done"
             /\ lm[p].op = "moderator_set"
             /\ ~lm[p].failed)
            => \A u \in Moderators :
                   last_op[<<u, lm[p].object_id>>].op = "add" =>
                       (u \in lm[p].ret.mods
                        <=> lm[p].now
                                < last_op[<<u, lm[p].object_id>>].expiration))
    /\ [][\A p \in LockProcs, u \in Moderators, o \in ObjectIds :
            /\ (redisUp /\ add_locks(p, u, o))
                   => locks'[<<u, o>>] = now + TTL
            /\ (redisUp /\ prune_execute(p))
                   => \A k \in Pairs :
                          locks'[k] # NoLock => locks'[k] > lm[p].now]_vars

\* C17 witness: "one" locked 10, relocked it ClockStep seconds later, and
\* moderator_set(10) at the second expiration no longer contains "one",
\* whose lock is deleted.
C17_Witness ==
    /\ lm["m1"].pc = "done"
    /\ lm["m1"].op = "moderator_set"
    /\ lm["m1"].object_id = 10
    /\ ~lm["m1"].failed
    /\ last_op[<<"one", 10>>].op = "add"
    /\ last_op[<<"one", 10>>].expiration = ClockStep + TTL
    /\ lm["m1"].now = last_op[<<"one", 10>>].expiration
    /\ "one" \notin lm["m1"].ret.mods
    /\ locks[<<"one", 10>>] = NoLock

----------------------------------------------------------------------------
\* Shared aiohttp sessions, after api/utils/aiohttp.py.  A loop switches
\* tasks only at an await; the only await of get_aiohttp_session() is the
\* acquisition of the loop's lock, and the model lets the loop switch there
\* whether or not the lock is free, which includes every schedule.  Loops run
\* in different threads and interleave freely.

\* create_session: the loop has no session registered, or a closed one
NeedsSession_Always(loop) == TRUE

NeedsSession_Unregistered(loop) == _SESSIONS[loop] = 0

NeedsSession(loop) ==
    \/ _SESSIONS[loop] = 0
    \/ sessions[_SESSIONS[loop]].closed

\* get_aiohttp_session() up to `async with _LOCKS[loop]`: the lock of the
\* running loop is registered if it is not, and taken if it is free.
get_aiohttp_session(t) ==
    LET loop == LoopOf(t)
        free == _LOCKS[loop] \in {"none", "free"}
    IN  /\ aio[t].pc = "idle"
        /\ _LOCKS' = [_LOCKS EXCEPT ![loop] = IF free THEN t ELSE @]
        /\ aio' = [aio EXCEPT ![t].pc = IF free THEN "locked" ELSE "waiting"]
        /\ UNCHANGED <<_SESSIONS, sessions, nonAioVars>>

\* the lock is released to a waiting task
acquire_lock(t) ==
    /\ aio[t].pc = "waiting"
    /\ _LOCKS[LoopOf(t)] = "free"
    /\ _LOCKS' = [_LOCKS EXCEPT ![LoopOf(t)] = t]
    /\ aio' = [aio EXCEPT ![t].pc = "locked"]
    /\ UNCHANGED <<_SESSIONS, sessions, nonAioVars>>

\* the body of `async with _LOCKS[loop]`: a session is created and
\* registered if needed, the loop's session is returned, the lock released
session_for_loop(t) ==
    LET loop == LoopOf(t)
    IN  /\ aio[t].pc = "locked"
        /\ IF NeedsSession(loop)
           THEN /\ Len(sessions) < MaxSessions
                /\ sessions' = Append(sessions, [loop |-> loop, closed |-> FALSE])
                /\ _SESSIONS' = [_SESSIONS EXCEPT ![loop] = Len(sessions) + 1]
           ELSE UNCHANGED <<sessions, _SESSIONS>>
        /\ aio' = [aio EXCEPT ![t] = [pc |-> "done", ret |-> _SESSIONS'[loop]]]
        /\ _LOCKS' = [_LOCKS EXCEPT ![loop] = "free"]
        /\ UNCHANGED nonAioVars

\* The caller takes the session.
AioReturn(t) ==
    /\ aio[t].pc = "done"
    /\ aio' = [aio EXCEPT ![t] = AioIdle]
    /\ UNCHANGED <<_SESSIONS, _LOCKS, sessions, nonAioVars>>

\* A user of session i closes it.
CloseSession(i) ==
    /\ ~sessions[i].closed
    /\ sessions' = [sessions EXCEPT ![i].closed = TRUE]
    /\ UNCHANGED <<_SESSIONS, _LOCKS, aio, nonAioVars>>

InitSessions ==
    /\ SearchAtRest
    /\ LocksAtRest
    /\ ShutdownAtRest
    /\ AliasAtRest
    /\ AdminAtRest
    /\ CountsAtRest
    /\ AioAtRest
    /\ SyncAtRest

NextSessions ==
    \/ \E t \in Tasks :
           \/ get_aiohttp_session(t)
           \/ acquire_lock(t)
           \/ session_for_loop(t)
           \/ AioReturn(t)
    \/ \E i \in 1 .. Len(sessions) : CloseSession(i)

SpecSessions == InitSessions /\ [][NextSessions]_vars

\* the sessions of a loop that are not closed
OpenSessions(loop) ==
    {i \in 1 .. Len(sessions) : sessions[i].loop = loop /\ ~sessions[i].closed}

\* C18: a loop never has two sessions that are not closed, so the calls on a
\* loop return the same session while it is not closed; a call returns a
\* session of its own loop, so calls on different loops return different
\* sessions; a call that finds the loop's session open creates none.
C18_OneSessionPerLoop ==
    /\ [](/\ \A l \in Loops : Cardinality(OpenSessions(l)) <= 1
          /\ \A t \in Tasks :
                 aio[t].pc = "done" =>
                     /\ aio[t].ret \in 1 .. Len(sessions)
                     /\ sessions[aio[t].ret].loop = LoopOf(t)
          /\ \A t1, t2 \in Tasks :
                 (/\ aio[t1].pc = "done"
                  /\ aio[t2].pc = "done"
                  /\ LoopOf(t1) # LoopOf(t2))
                 => aio[t1].ret # aio[t2].ret
          /\ \A t1, t2 \in Tasks :
                 (/\ aio[t1].pc = "done"
                  /\ aio[t2].pc = "done"
                  /\ LoopOf(t1) = LoopOf(t2)
                  /\ ~sessions[aio[t1].ret].closed
                  /\ ~sessions[aio[t2].ret].closed)
                 => aio[t1].ret = aio[t2].ret)
    /\ [][\A t \in Tasks :
            (/\ session_for_loop(t)
             /\ _SESSIONS[LoopOf(t)] # 0
             /\ ~sessions[_SESSIONS[LoopOf(t)]].closed)
            => /\ sessions' = sessions
               /\ aio'[t].ret = _SESSIONS[LoopOf(t)]]_vars

\* C18 witness: the two tasks of loop_1 hold the same open session, and the
\* task of loop_2 holds another.
C18_Witness ==
    /\ aio["t1"].pc = "done"
    /\ aio["t2"].pc = "done"
    /\ aio["t3"].pc = "done"
    /\ aio["t1"].ret = aio["t2"].ret
    /\ aio["t3"].ret # aio["t1"].ret
    /\ ~sessions[aio["t1"].ret].closed
    /\ ~sessions[aio["t3"].ret].closed

----------------------------------------------------------------------------
\* Reindexing, after es_syncer/sync.py: reindex(model_name) copies the
\* database to a new index and _go_live makes it the live one.  The state of
\* the cluster after every call to Elasticsearch is a state of the model.

\* model_name, the live name
LiveName == "image"

\* the index the live alias points to before the first modelled run
FirstIndex == "image-0"

\* _create_write_index: model_name + '-' + uuid4().hex, a fresh name per run
WriteNames == <<"image-1", "image-2", "image-3", "image-4", "image-5">>

\* indices.exists(index=name): name is an index or an alias
Exists(name) ==
    \/ name \in es_indices
    \/ \E a \in es_aliases : a[1] = name

\* a search on name finds an index to answer it
Resolves(name) ==
    \/ name \in es_indices
    \/ \E a \in es_aliases : a[1] = name /\ a[2] \in es_indices

\* the cluster after indices.delete(index=name): the aliases of a deleted
\* index are deleted with it
DeleteIndex(name) ==
    /\ es_indices' = es_indices \ {name}
    /\ es_aliases' = {a \in es_aliases : a[2] # name}
    /\ complete' = complete \ {name}

\* reindex() up to _go_live: the write index is named and _synchronize
\* fills it; indexing may stop before every document is copied.
reindex ==
    /\ sync.pc = "idle"
    /\ sync.runs < MaxReindex
    /\ \E all_copied \in BOOLEAN :
           LET write_index == WriteNames[sync.runs + 1]
           IN  /\ es_indices' = es_indices \cup {write_index}
               /\ complete' = IF all_copied THEN complete \cup {write_index}
                              ELSE complete
               /\ sync' = [sync EXCEPT !.pc = "check",
                                       !.write_index = write_index,
                                       !.had_live = Resolves(LiveName)]
    /\ UNCHANGED <<es_aliases, nonSyncVars>>

\* _consistency_check(new_index, live_alias): True when the live name does
\* not exist, else whether the new index holds the last document
_consistency_check ==
    /\ sync.pc = "check"
    /\ sync' = [sync EXCEPT !.pc = "go_live",
                            !.consistent = IF ~Exists(LiveName) THEN TRUE
                                           ELSE sync.write_index \in complete]
    /\ UNCHANGED <<es_indices, es_aliases, complete, nonSyncVars>>

\* _go_live after the check, whose failure is only logged: a concrete index
\* with the live name is deleted.
go_live_delete_index ==
    /\ sync.pc = "go_live"
    /\ IF LiveName \in es_indices
       THEN DeleteIndex(LiveName)
       ELSE UNCHANGED <<es_indices, es_aliases, complete>>
    /\ sync' = [sync EXCEPT !.pc = "alias"]
    /\ UNCHANGED nonSyncVars

\* _go_live: the alias is moved from the old index to the write index in one
\* update_aliases call, or created with put_alias when there is none.
go_live_alias ==
    /\ sync.pc = "alias"
    /\ IF \E a \in es_aliases : a[1] = LiveName
       THEN \E a \in es_aliases :
                /\ a[1] = LiveName
                /\ es_aliases' = (es_aliases \ {a})
                                     \cup {<<LiveName, sync.write_index>>}
                /\ sync' = [sync EXCEPT !.pc = "delete_old", !.old = a[2]]
       ELSE /\ es_aliases' = es_aliases \cup {<<LiveName, sync.write_index>>}
            /\ sync' = [sync EXCEPT !.pc = "idle", !.runs = @ + 1]
    /\ UNCHANGED <<es_indices, complete, nonSyncVars>>

\* _go_live: indices.delete(index=old)
go_live_delete_old ==
    /\ sync.pc = "delete_old"
    /\ DeleteIndex(sync.old)
    /\ sync' = [sync EXCEPT !.pc = "idle", !.runs = @ + 1]
    /\ UNCHANGED nonSyncVars

\* A row is added to the table: no index holds the last document any more.
InsertRow ==
    /\ complete # {}
    /\ complete' = {}
    /\ UNCHANGED <<es_indices, es_aliases, sync, nonSyncVars>>

\* SpecSync: reindex runs on a cluster where the live name does not exist,
\* is a concrete index (written by listen()), or is an alias.
InitSync ==
    /\ SearchAtRest
    /\ LocksAtRest
    /\ ShutdownAtRest
    /\ AliasAtRest
    /\ AdminAtRest
    /\ CountsAtRest
    /\ AioAtRest
    /\ sync = SyncIdle
    /\ \/ es_indices = {} /\ es_aliases = {}
       \/ es_indices = {LiveName} /\ es_aliases = {}
       \/ es_indices = {FirstIndex} /\ es_aliases = {<<LiveName, FirstIndex>>}
    /\ complete \in SUBSET es_indices

NextSync ==
    \/ InsertRow
    \/ reindex
    \/ _consistency_check
    \/ go_live_delete_index
    \/ go_live_alias
    \/ go_live_delete_old

SpecSync == InitSync /\ [][NextSync]_vars

\* C19: after a failed consistency check, no step of _go_live changes the
\* aliases or deletes an index.
C19_FailedCheckLeavesOldIndex ==
    [][(sync.pc \in {"go_live", "alias", "delete_old"} /\ ~sync.consistent)
       => (es_aliases' = es_aliases /\ es_indices \subseteq es_indices')]_vars

\* C20: from the start of a reindex of a live name that resolved to an
\* index, the live name resolves to an existing index in every state (stated
\* for the runs whose consistency check has not failed).
C20_NoDowntime ==
    (sync.pc # "idle" /\ sync.had_live /\ sync.consistent)
        => Resolves(LiveName)

----------------------------------------------------------------------------
\* SpecRenew: one process prunes while another adds and renews the locks of
\* the moderators on one media item; the store stays reachable.

InitRenew == InitLocks

NextRenew ==
    \/ prune_read("m1", "prune", 10)
    \/ prune_execute("m1")
    \/ \E username \in Moderators : add_locks("m2", username, 10)
    \/ \E p \in LockProcs : LmReturn(p)
    \/ Tick

SpecRenew == InitRenew /\ [][NextRenew]_vars

\* C27: the pipe.execute() of a prune deletes no lock that is valid at that
\* moment: a lock whose score is later than the time of the deletion, as
\* after a renewal by add_locks during the prune, is there afterwards with
\* the same score.
C27_PruneDeletesOnlyExpired ==
    [][\A p \in LockProcs :
          (lm[p].pc = "pruning" /\ lm'[p].pc = "done") =>
              \A k \in Pairs :
                  (locks[k] # NoLock /\ ~IsExpired(locks[k], now)) =>
                      locks'[k] = locks[k]]_vars

----------------------------------------------------------------------------
\* SpecAdmin: the admin views of a media type that consult the LockManager,
\* served one at a time while locks are added, time passes and the store
\* goes away and comes back.

\* the components other than the locks and the admin views
nonAdminVars ==
    <<searchVars, aioVars, syncVars, countVars, shutdownVars, aliasVars>>

\* changelist_view up to self.lock_manager.prune()
changelist_view(user) ==
    /\ view.pc = "idle"
    /\ lm["m1"].pc = "idle"
    /\ view' = [ViewIdle EXCEPT !.pc = "prune", !.name = "changelist_view",
                                !.user = user]
    /\ UNCHANGED <<lockVars, nonAdminVars>>

\* change_view up to self.lock_manager.moderator_set(object_id)
change_view(user, object_id) ==
    /\ view.pc = "idle"
    /\ lm["m1"].pc = "idle"
    /\ view' = [ViewIdle EXCEPT !.pc = "moderator_set",
                                !.name = "change_view", !.user = user,
                                !.object_id = object_id]
    /\ UNCHANGED <<lockVars, nonAdminVars>>

\* The rest of changelist_view: locked_media is built from
\* valid_locks.items(); None has no items() and the view raises
\* AttributeError.
changelist_locked_media ==
    /\ view.pc = "prune"
    /\ lm["m1"].pc = "done"
    /\ view' = IF lm["m1"].ret.none
               THEN [view EXCEPT !.pc = "raised", !.failed = lm["m1"].failed]
               ELSE [view EXCEPT
                        !.pc = "done",
                        !.failed = lm["m1"].failed,
                        !.locked_media =
                            {k[2] : k \in {l \in lm["m1"].ret.locks :
                                               l[1] # view.user}}]
    /\ lm' = [lm EXCEPT !["m1"] = LmIdle]
    /\ UNCHANGED <<redisUp, locks, now, last_op, nonAdminVars>>

\* The rest of change_view: mods -= {request.user.get_username()}, and the
\* warning when mods is not empty.
change_view_mods ==
    /\ view.pc = "moderator_set"
    /\ lm["m1"].pc = "done"
    /\ view' = [view EXCEPT !.pc = "done", !.failed = lm["m1"].failed,
                            !.mods = lm["m1"].ret.mods \ {view.user}]
    /\ lm' = [lm EXCEPT !["m1"] = LmIdle]
    /\ UNCHANGED <<redisUp, locks, now, last_op, nonAdminVars>>

\* The response, or the error, of the view is sent.
ViewResponse ==
    /\ view.pc \in {"done", "raised"}
    /\ view' = ViewIdle
    /\ UNCHANGED <<lockVars, nonAdminVars>>

InitAdmin == InitLocks

NextAdmin ==
    \/ \E user \in Moderators : changelist_view(user)
    \/ \E user \in Moderators, object_id \in ObjectIds :
           change_view(user, object_id)
    \/ view.pc = "prune" /\ prune_read("m1", "prune", 10)
    \/ view.pc = "moderator_set"
           /\ prune_read("m1", "moderator_set", view.object_id)
    \/ prune_execute("m1")
    \/ changelist_locked_media
    \/ change_view_mods
    \/ ViewResponse
    \/ \E username \in Moderators : add_locks("m2", username, 10)
    \/ LmReturn("m2")
    \/ Tick
    \/ RedisOutage
    \/ RedisRecovery

SpecAdmin == InitAdmin /\ [][NextAdmin]_vars

\* C28: a changelist_view or change_view whose call of the LockManager met
\* an unreachable store completes without raising, with no locked media and
\* no moderator to warn about.
C28_ViewsSurviveOutage ==
    (view.pc \in {"done", "raised"} /\ view.failed) =>
        /\ view.pc = "done"
        /\ view.locked_media = {}
        /\ view.mods = {}

----------------------------------------------------------------------------
\* SpecShutdown: the calls of SpecSessions while the application shuts down
\* and _close_sessions empties the registry, one session per iteration.

\* asgi_shutdown is sent: _close_sessions starts.
_close_sessions ==
    /\ shutdown.pc = "idle"
    /\ shutdown' = [shutdown EXCEPT !.pc = "loop"]
    /\ UNCHANGED <<aioVars, nonSessionVars>>

\* `while _SESSIONS: loop, session = _SESSIONS.popitem()`, up to the await:
\* an entry leaves the registry, or the registry is empty and the handler ends.
popitem ==
    /\ shutdown.pc = "loop"
    /\ IF \A l \in Loops : _SESSIONS[l] = 0
       THEN /\ shutdown' = [shutdown EXCEPT !.pc = "done"]
            /\ UNCHANGED _SESSIONS
       ELSE \E loop \in {l \in Loops : _SESSIONS[l] # 0} :
                /\ shutdown' = [shutdown EXCEPT
                                   !.pc = "closing",
                                   !.session = _SESSIONS[loop],
                                   !.popped = @ \cup {_SESSIONS[loop]}]
                /\ _SESSIONS' = [_SESSIONS EXCEPT ![loop] = 0]
    /\ UNCHANGED <<_LOCKS, sessions, aio, nonSessionVars>>

\* `await session.close()` completes: the session is closed and counted, or
\* close() raised and the exception was logged (raised = TRUE).
close_session(raised) ==
    /\ shutdown.pc = "closing"
    /\ sessions' = [sessions EXCEPT ![shutdown.session].closed =
                        IF raised THEN @ ELSE TRUE]
    /\ shutdown' = [shutdown EXCEPT
                       !.pc = "loop",
                       !.closed_sessions = IF raised THEN @ ELSE @ + 1]
    /\ UNCHANGED <<_SESSIONS, _LOCKS, aio, nonSessionVars>>

InitShutdown == InitSessions

NextShutdown ==
    \/ NextSessions
    \/ _close_sessions
    \/ popitem
    \/ \E raised \in BOOLEAN : close_session(raised)

SpecShutdown == InitShutdown /\ [][NextShutdown]_vars

\* C23: the session a call of get_aiohttp_session() returns is open at the
\* moment of the return and is the one registered for the loop; when the
\* loop's registered session was closed, or the loop had no registered
\* session (none yet, or removed by _close_sessions), it is a session created
\* by this call.
C23_ReturnedSessionIsOpen ==
    [][\A t \in Tasks :
          (aio[t].pc = "locked" /\ aio'[t].pc = "done") =>
              LET ret == aio'[t].ret
                  before == _SESSIONS[LoopOf(t)]
              IN  /\ ret \in 1 .. Len(sessions')
                  /\ ~sessions'[ret].closed
                  /\ sessions'[ret].loop = LoopOf(t)
                  /\ _SESSIONS'[LoopOf(t)] = ret
                  /\ (before = 0 \/ sessions[before].closed) =>
                         ret = Len(sessions) + 1]_vars

\* C23 witness: a call returned an open session created after _close_sessions
\* had removed and closed the loop's earlier session.
C23_Witness ==
    \E t \in Tasks :
        /\ aio[t].pc = "done"
        /\ aio[t].ret # 0
        /\ ~sessions[aio[t].ret].closed
        /\ \E i \in shutdown.popped :
               /\ i < aio[t].ret
               /\ sessions[i].loop = LoopOf(t)
               /\ sessions[i].closed

----------------------------------------------------------------------------
\* SpecAlias: runs of the point_alias task group, one task at a time, on a
\* cluster where the alias is held by no index, by one, or by two.

IndexNames == {"image-init", "image-next"}

AliasNames == {"image", ""}

\* the cluster components the task group does not touch
nonClusterVars ==
    <<searchVars, lockVars, aioVars, countVars, shutdownVars, adminVars>>

\* es_conn.indices.get_alias(name=alias): the indices that hold the alias
Holders(alias) == {a[2] : a \in {b \in es_aliases : b[1] = alias}}

\* The task group is triggered with its arguments.
point_alias(target_index, target_alias, should_delete_old_index) ==
    /\ pa.pc = "idle"
    /\ pa' = [pc |-> "get_existing_index", target_index |-> target_index,
              target_alias |-> target_alias,
              should_delete_old_index |-> should_delete_old_index,
              existing_index |-> "None"]
    /\ UNCHANGED <<syncVars, nonClusterVars>>

\* The task is skipped without an alias, fails when several indices hold
\* the alias, and otherwise returns the holder, or None when there is none.
\* A skipped or failed task keeps the downstream tasks from running.
get_existing_index ==
    /\ pa.pc = "get_existing_index"
    /\ pa' = IF pa.target_alias = ""
             THEN [pa EXCEPT !.pc = "skipped"]
             ELSE IF Cardinality(Holders(pa.target_alias)) > 1
             THEN [pa EXCEPT !.pc = "failed"]
             ELSE IF Holders(pa.target_alias) = {}
             THEN [pa EXCEPT !.pc = "point_new_alias"]
             ELSE [pa EXCEPT !.pc = "point_new_alias",
                             !.existing_index =
                                 CHOOSE i \in Holders(pa.target_alias) : TRUE]
    /\ UNCHANGED <<syncVars, nonClusterVars>>

\* the aliases after update_aliases applied the remove (if existing_index)
\* and the add
UpdatedAliases(existing_index, target_index, target_alias) ==
    (es_aliases \ {<<target_alias, existing_index>>})
        \cup {<<target_alias, target_index>>}

\* One update_aliases call: the cluster applies all the actions or, when an
\* index they name does not exist, none of them (the task fails).
point_new_alias ==
    /\ pa.pc = "point_new_alias"
    /\ IF /\ pa.target_index \in es_indices
          /\ pa.existing_index \in es_indices \cup {"None"}
       THEN /\ es_aliases' = UpdatedAliases(pa.existing_index,
                                            pa.target_index, pa.target_alias)
            /\ pa' = [pa EXCEPT !.pc = "delete_old_index"]
       ELSE /\ es_aliases' = es_aliases
            /\ pa' = [pa EXCEPT !.pc = "failed"]
    /\ UNCHANGED <<es_indices, complete, sync, nonClusterVars>>

\* index_name is the XCom of get_existing_index.
delete_old_index ==
    /\ pa.pc = "delete_old_index"
    /\ pa' = [pa EXCEPT !.pc = "done"]
    /\ IF pa.should_delete_old_index /\ pa.existing_index # "None"
       THEN DeleteIndex(pa.existing_index)
       ELSE UNCHANGED <<es_indices, es_aliases, complete>>
    /\ UNCHANGED <<sync, nonClusterVars>>

\* The run of the task group is over.
PaFinish ==
    /\ pa.pc \in {"done", "failed", "skipped"}
    /\ pa' = PaIdle
    /\ UNCHANGED <<syncVars, nonClusterVars>>

\* create_index: a DAG creates an index without aliases
create_index(name) ==
    /\ name \notin es_indices
    /\ es_indices' = es_indices \cup {name}
    /\ UNCHANGED <<es_aliases, complete, sync, aliasVars, nonClusterVars>>

InitAlias ==
    /\ SearchAtRest
    /\ LocksAtRest
    /\ AioAtRest
    /\ CountsAtRest
    /\ ShutdownAtRest
    /\ AdminAtRest
    /\ AliasAtRest
    /\ sync = SyncIdle
    /\ complete = {}
    /\ es_indices \in SUBSET IndexNames
    /\ es_aliases \in SUBSET ({"image"} \X es_indices)

NextAlias ==
    \/ \E target_index \in IndexNames, target_alias \in AliasNames,
          should_delete_old_index \in BOOLEAN :
           point_alias(target_index, target_alias, should_delete_old_index)
    \/ get_existing_index
    \/ point_new_alias
    \/ delete_old_index
    \/ PaFinish
    \/ \E name \in IndexNames : create_index(name)

SpecAlias == InitAlias /\ [][NextAlias]_vars

\* C24: when the task group has completed, target_alias is held by
\* target_index and by no other index; and no step of the run takes the
\* alias from one holder to none or to two.
C24_AliasPointsToTarget ==
    /\ [](pa.pc = "done" => Holders(pa.target_alias) = {pa.target_index})
    /\ [][(pa.pc # "idle" /\ Cardinality(Holders(pa.target_alias)) = 1) =>
              Cardinality({a \in es_aliases' : a[1] = pa.target_alias}) = 1]_vars

\* C29: after delete_old_index, whatever should_delete_old_index was and
\* whichever index held the alias before the run, target_index still exists.
C29_TargetIndexSurvives ==
    pa.pc = "done" => pa.target_index \in es_indices

----------------------------------------------------------------------------
\* SpecCounts: get_providers('image') while documents are indexed and the
\* cached value expires; the cache may hold a value written before the
\* deployment of this code, in the old list format.

MaxProviderDocs == 1

\* s.execute().aggregations['unique_providers']['buckets'], or the buckets
\* the handler of NotFoundError substitutes
Buckets ==
    IF es_providers.exists
    THEN {<<p, es_providers.count[p]>> :
              p \in {q \in Providers : es_providers.count[q] > 0}}
    ELSE {<<"none_found", 0>>}

\* not providers
Falsy(value) == value.kind = "None" \/ value.items = {}

get_providers ==
    LET providers == providers_cache
        computed == [kind |-> "dict", items |-> Buckets]
    IN  /\ IF Falsy(providers)
           THEN /\ providers_cache' = computed
                /\ providers_ret' = computed
           ELSE /\ providers_cache' = IF providers.kind = "list"
                                      THEN NoValue
                                      ELSE providers_cache
                /\ providers_ret' = providers
        /\ UNCHANGED <<es_providers, nonCountVars>>

\* timeout=CACHE_TIMEOUT: the cached value expires
ExpireProvidersCache ==
    /\ providers_cache # NoValue
    /\ providers_cache' = NoValue
    /\ UNCHANGED <<es_providers, providers_ret, nonCountVars>>

\* A document of the provider is indexed.
IndexProviderDocument(provider) ==
    /\ es_providers.exists
    /\ es_providers.count[provider] < MaxProviderDocs
    /\ es_providers' = [es_providers EXCEPT !.count[provider] = @ + 1]
    /\ UNCHANGED <<providers_cache, providers_ret, nonCountVars>>

\* the indices the aggregation may meet
ProviderIndexes ==
    [exists : BOOLEAN, count : [Providers -> 0 .. MaxProviderDocs]]

\* the bucket sets such an index can have produced
BucketSets ==
    {{<<p, 1>> : p \in ps} : ps \in SUBSET Providers}
        \cup {{<<"none_found", 0>>}}

InitCounts ==
    /\ SearchAtRest
    /\ LocksAtRest
    /\ ShutdownAtRest
    /\ AliasAtRest
    /\ AdminAtRest
    /\ AioAtRest
    /\ SyncAtRest
    /\ es_providers \in {e \in ProviderIndexes :
                            ~e.exists => \A p \in Providers : e.count[p] = 0}
    /\ providers_cache \in
           {NoValue} \cup [kind : {"list", "dict"}, items : BucketSets]
    /\ providers_ret = NoCall

NextCounts ==
    \/ get_providers
    \/ ExpireProvidersCache
    \/ \E provider \in Providers : IndexProviderDocument(provider)

SpecCounts == InitCounts /\ [][NextCounts]_vars

\* C22: whatever the cache holds, get_providers returns a dictionary, never
\* the list of the old cache format.
C22_GetProvidersReturnsDict ==
    providers_ret # NoCall => providers_ret.kind = "dict"

----------------------------------------------------------------------------
\* SpecStale: filter_dead requests for a query whose index has been rebuilt
\* since the cached mask was written (the mask outlives a refresh of the
\* index until its TTL ends), so that the mask and the ranking need not agree:
\* a rank the mask records live may hold a dead hit now, or no hit at all.

StaleMasks == UNION {[1 .. n -> {0, 1}] : n \in 0 .. MaxStaleMask}

InitStale ==
    /\ NoProviders
    /\ OthersAtRest
    /\ index \in UNION {[1 .. n -> Statuses] : n \in 0 .. MaxConcHits}
    /\ cacheUp = TRUE
    /\ mask \in [Fingerprints -> StaleMasks]
    /\ mask["related"] = <<>>
    /\ req = [p \in Procs |-> Idle]
    /\ session = NoSession

NextStale ==
    \/ \E page_size \in {1, 2}, page \in {1, 2} :
           search("a", page_size, page, TRUE)
    \/ _post_process_results("a")
    \/ Respond("a")

SpecStale == InitStale /\ [][NextStale]_vars

----------------------------------------------------------------------------
\* SpecPages: one client asks for pages 1, 2, ... of one query with one page
\* size and filter_dead = true, with a working cache and nobody else changing
\* the mask between its calls (test_search_consistency).

InitPages ==
    /\ NoProviders
    /\ OthersAtRest
    /\ index \in SmallIndexes \cup {BigIndex}
    /\ cacheUp = TRUE
    /\ mask = [q \in Fingerprints |-> <<>>]
    /\ req = [p \in Procs |-> Idle]
    /\ \E page_size \in PageSizes :
           session = [page_size |-> page_size, pages |-> <<>>, failed |-> FALSE]

\* the client's next call of search()
NextPage ==
    /\ req["a"].pc = "idle"
    /\ ~session.failed
    /\ Len(session.pages) < MaxPage
    /\ BeginRequest("a", "search", session.page_size, Len(session.pages) + 1,
                    TRUE)
    /\ UNCHANGED <<index, cacheUp, mask, session, providerVars, nonSearchVars>>

\* the client reads the results of the page, or stops at an error
TakePage ==
    /\ req["a"].pc \in {"done", "error", "overflow"}
    /\ session' = IF req["a"].pc = "done"
                  THEN [session EXCEPT !.pages = Append(@, req["a"].results)]
                  ELSE [session EXCEPT !.failed = TRUE]
    /\ req' = [req EXCEPT !["a"] = Idle]
    /\ UNCHANGED <<index, cacheUp, mask, providerVars, nonSearchVars>>

NextPages ==
    \/ NextPage
    \/ _post_process_results("a")
    \/ TakePage

SpecPages == InitPages /\ [][NextPages]_vars

\* C1: the pages served so far, in page order, are exactly the first live
\* results of the query in rank order, with strictly increasing ranks: no
\* identifier is served twice (the pages are pairwise disjoint) and none is
\* skipped.
C1_PagesPartitionLiveResults ==
    LET served == Concat(session.pages)
    IN  /\ served = Take(LiveIndexRanks, Len(served))
        /\ \A i \in 2 .. Len(served) : served[i - 1] < served[i]

\* C1 witness: three pages of two results each were served from a ranking
\* with dead hits before and between them.
C1_Witness ==
    /\ Len(session.pages) = 3
    /\ session.page_size = 2
    /\ \A k \in 1 .. 3 : Len(session.pages[k]) = 2
    /\ \E r \in 0 .. session.pages[3][2] : ~IsLive(r)

----------------------------------------------------------------------------
\* SpecConc: concurrent search() requests with filter_dead = true for one
\* query fingerprint, interleaved at the reads and writes of the cache, with
\* no expiry of the mask.

ConcIndexes == UNION {[1 .. n -> {"200", "403"}] : n \in 0 .. MaxConcHits}

InitConc ==
    /\ NoProviders
    /\ OthersAtRest
    /\ index \in ConcIndexes
    /\ cacheUp = TRUE
    /\ mask = [q \in Fingerprints |-> <<>>]
    /\ req = [p \in Procs |-> Idle]
    /\ session = NoSession

NextConc ==
    \/ \E p \in Procs, page_size \in {1, 2}, page \in {1, 2} :
           search(p, page_size, page, TRUE)
    \/ \E p \in Procs : _post_process_results(p)
    \/ \E p \in Procs : Respond(p)

SpecConc == InitConc /\ [][NextConc]_vars

====
